---- MODULE Spec2Model ----
(***************************************************************************)
(* Host I/O of cortex-m-semihosting: the stream slots of src/io.rs and     *)
(* src/export.rs, the buffered writer write_all, open_streams, and the     *)
(* printing entry points hstdout_str / hstdout_fmt / hstderr_str /         *)
(* hstderr_fmt with the macros of src/macros.rs that expand to them,       *)
(* run by a thread-mode context that interrupt handlers                    *)
(* preempt.  The host is the environment: every OPEN and WRITE syscall     *)
(* gets a nondeterministic result word.                                    *)
(***************************************************************************)
EXTENDS Integers, Sequences, FiniteSets, TLC

(* ------------------------------ bounds --------------------------------- *)

\* longest buffer handed to a writer
MaxLen == 2
\* WRITE syscalls one write_all call may issue before the model stops it
MaxWrites == 2

(* ------------------------------ machine -------------------------------- *)

\* A machine word (usize or isize, 32 bits on the Cortex-M targets) is written
\* as the integer its bits denote when read as isize: the word 0xFFFF_FFFF is
\* -1.  Under this reading `as isize` and `as usize` keep the bits, and the
\* usize comparisons of the code are the unsigned ones below.
ULe(a, b) == IF (a < 0) = (b < 0) THEN a <= b ELSE b < 0
UGt(a, b) == ~ULe(a, b)

\* the words the host may answer to OPEN: -1 (failure) or a descriptor
OpenWords == {-1, 1, 3}
\* the words the host may answer to WRITE: a residual count, a count larger
\* than anything submitted, or -1
WriteWords == (0 .. MaxLen + 1) \cup {-1}

\* the access modes of the two OPENs: 4 for the output, 8 for the error output
ModeOut == 4
ModeErr == 8
Modes == {ModeOut, ModeErr}

\* handles a caller may pass to write_all
CallerFds == {-1, 0}
\* a buffer of length n holds the bytes 1 .. n, so that a sub-slice is
\* recognised by its contents
Bytes(n) == [i \in 1 .. n |-> i]
Slice(buf, off, len) == [i \in 1 .. len |-> buf[off + i]]

VARIABLES
    STDOUT,     \* io.rs: static mut STDOUT
    STDERR,     \* io.rs: static mut STDERR
    HSTDOUT,    \* export.rs: static mut HSTDOUT (<<>> for None, <<fd>> for Some)
    HSTDERR,    \* export.rs: static mut HSTDERR
    primask,    \* TRUE while interrupts are masked (inside interrupt::free)
    stack,      \* the calls in flight, the running one last
    nopen,      \* history: the OPEN syscalls of the printing entry points, per mode
    origin      \* history: per slot of io.rs, the mode of the OPEN whose answer
                \* the last store put there, 0 before any store

vars == <<STDOUT, STDERR, HSTDOUT, HSTDERR, primask, stack, nopen, origin>>

(* ------------------------------ frames --------------------------------- *)

\* One call in flight.  fd, fd2, off, len, res, rest and saved are the locals
\* of the function (rest: the lengths of the pieces of a fmt::Arguments still
\* to be written; saved: the interrupt mask interrupt::free found); buf is the
\* buffer being written; label is the argument error() was entered with.
\* mode and mode2 are history: the access mode of the OPEN that returned fd
\* and fd2 to open_streams.
\* Two more fields are history: subs lists the WRITE syscalls of the write_all in
\* progress, each with the host's answer, and hit records that another
\* open_streams call stored into a slot while this call was in flight.
Frame(op, pc, fd, n, rest) ==
    [op |-> op, pc |-> pc, fd |-> fd, fd2 |-> 0, buf |-> Bytes(n), off |-> 0,
     len |-> n, res |-> "none", rest |-> rest, saved |-> FALSE, label |-> "",
     subs |-> <<>>, hit |-> FALSE, mode |-> 0, mode2 |-> 0]

Depth == Len(stack)
Top == stack[Depth]
SetTop(f) == [stack EXCEPT ![Depth] = f]
Running(pc) == Depth > 0 /\ Top.pc = pc

\* The processor runs in Thread mode or in Handler mode.  A call starts in
\* Thread mode when nothing is in flight, or in an interrupt handler that
\* preempts the Thread-mode call while interrupts are not masked; the handler
\* runs to its end before Thread mode goes on (handlers share one priority).
\* A handler that would fire on the return instruction fires after it.
CanCall ==
    /\ ~primask
    /\ \/ Depth = 0
       \/ Depth = 1 /\ Top.pc # "ret"

\* the view (pointer, length) of the remaining buffer
View(f) == Slice(f.buf, f.off, f.len)

(* ------------------------------ write_all ------------------------------ *)

\* mutant: an answer that is no residual count is taken for completion
WriteMatch_ErrorIsDone(n, len) ==
    IF n = 0 THEN "done"
    ELSE IF ULe(n, len) /\ UGt(n, 0) THEN "partial"
    ELSE "done"

\* mutant: the bound on the residual count is not tested
WriteMatch_NoBound(n, len) ==
    IF n = 0 THEN "done"
    ELSE IF UGt(n, 0) THEN "partial"
    ELSE "error"

\* mutant: a residual count equal to the length attempted is an error
WriteMatch_Strict(n, len) ==
    IF n = 0 THEN "done"
    ELSE IF ULe(n, len) /\ n # len /\ UGt(n, 0) THEN "partial"
    ELSE "error"

\* io.rs 58-68: the match on the word WRITE returned
WriteMatch(n, len) ==
    IF n = 0 THEN "done"
    ELSE IF ULe(n, len) /\ UGt(n, 0) THEN "partial"
    ELSE "error"

\* mutant: the slice starts one byte too far
Advance_Skip(f, n) ==
    IF n > 1 THEN [f EXCEPT !.off = f.off + (f.len - n) + 1, !.len = n - 1]
    ELSE [f EXCEPT !.off = f.off + (f.len - n), !.len = n]

\* mutant: the view is not advanced
Advance_Stay(f, n) == f

\* mutant: the first n bytes are kept
Advance_Head(f, n) == [f EXCEPT !.len = n]

\* io.rs 62-65: keep the last n bytes of the view
Advance(f, n) == [f EXCEPT !.off = f.off + (f.len - n), !.len = n]

\* mutant: only the handles below the sentinel are refused
BadFd_BelowSentinel(fd) == fd < -1

\* mutant: the handle 0 is refused too
BadFd_NonPositive(fd) == fd <= 0

\* mutant: the handle test is skipped
BadFd_Never(fd) == FALSE

\* io.rs 52: the handle test
BadFd(fd) == fd < 0

\* the operations of io.rs that write through a slot, and those of export.rs
OutOps == {"write", "write_str", "write_fmt"}
ErrOps == {"ewrite", "ewrite_str", "ewrite_fmt"}
HOutOps == {"hstdout_str", "hstdout_fmt"}
HErrOps == {"hstderr_str", "hstderr_fmt"}
FmtOps == {"write_fmt", "ewrite_fmt", "hstdout_fmt", "hstderr_fmt"}
FacadeOps == HOutOps \cup HErrOps
\* the operations that run write_all
WriterOps == {"write_all"} \cup OutOps \cup ErrOps \cup FacadeOps

\* where a finished write_all hands its result: to the piece loop of
\* write_fmt, to the end of the closure of an export.rs entry point, or to
\* the caller
AfterWrite(f, r) ==
    IF f.op \in FmtOps THEN [f EXCEPT !.res = r, !.pc = "fmt_next"]
    ELSE IF f.op \in FacadeOps THEN [f EXCEPT !.res = r, !.pc = "hs_unfree"]
    ELSE [f EXCEPT !.res = r, !.pc = "ret"]

\* mutant: a write that fails puts both slots back to the sentinel
WriteAllSlots_Reset(r, out, err) ==
    IF r = "Err" THEN <<-1, -1>> ELSE <<out, err>>

\* io.rs 51-73: write_all assigns neither STDOUT nor STDERR: the two slots
\* after a step of write_all whose outcome is r ("none" while it goes on)
WriteAllSlots(r, out, err) == <<out, err>>

\* write_all(fd, buffer) called directly
Call_write_all ==
    /\ CanCall
    /\ \E fd \in CallerFds, n \in 0 .. MaxLen :
          stack' = Append(stack, Frame("write_all", "wa_entry", fd, n, <<>>))
    /\ UNCHANGED <<STDOUT, STDERR, HSTDOUT, HSTDERR, primask, nopen, origin>>

\* io.rs 52-54
WaEntry ==
    /\ Running("wa_entry")
    /\ stack' = SetTop(IF BadFd(Top.fd) THEN AfterWrite(Top, "Err")
                       ELSE [Top EXCEPT !.pc = "wa_loop"])
    /\ LET r == IF BadFd(Top.fd) THEN "Err" ELSE "none"
       IN /\ STDOUT' = WriteAllSlots(r, STDOUT, STDERR)[1]
          /\ STDERR' = WriteAllSlots(r, STDOUT, STDERR)[2]
    /\ UNCHANGED <<HSTDOUT, HSTDERR, primask, nopen, origin>>

\* io.rs 56, 72: the loop test fails, Ok(())
WaExit ==
    /\ Running("wa_loop")
    /\ Top.len = 0
    /\ stack' = SetTop(AfterWrite(Top, "Ok"))
    /\ STDOUT' = WriteAllSlots("Ok", STDOUT, STDERR)[1]
    /\ STDERR' = WriteAllSlots("Ok", STDOUT, STDERR)[2]
    /\ UNCHANGED <<HSTDOUT, HSTDERR, primask, nopen, origin>>

\* io.rs 57-69: one WRITE syscall and the match on its result
WaWrite ==
    /\ Running("wa_loop")
    /\ Top.len > 0
    /\ Len(Top.subs) < MaxWrites
    /\ \E w \in WriteWords :
          LET sub == [fd |-> Top.fd, bytes |-> View(Top), ret |-> w]
              f == [Top EXCEPT !.subs = Append(Top.subs, sub)]
              m == WriteMatch(w, Top.len)
              r == IF m = "done" THEN "Ok"
                   ELSE IF m = "partial" THEN "none" ELSE "Err"
          IN /\ stack' = SetTop(
                    IF m = "done" THEN AfterWrite(f, "Ok")
                    ELSE IF m = "partial" THEN Advance(f, w)
                    ELSE AfterWrite(f, "Err"))
             /\ STDOUT' = WriteAllSlots(r, STDOUT, STDERR)[1]
             /\ STDERR' = WriteAllSlots(r, STDOUT, STDERR)[2]
    /\ UNCHANGED <<HSTDOUT, HSTDERR, primask, nopen, origin>>

\* the call returns to its caller
Return ==
    /\ Running("ret")
    /\ stack' = SubSeq(stack, 1, Depth - 1)
    /\ UNCHANGED <<STDOUT, STDERR, HSTDOUT, HSTDERR, primask, nopen, origin>>

(* ------------------------------ registry ------------------------------ *)

\* mutant: failure only when both descriptors are negative
OpenResult_Both(stdout_fd, stderr_fd) ==
    IF stdout_fd < 0 /\ stderr_fd < 0 THEN "Err" ELSE "Ok"

\* io.rs 42-46: failure when either descriptor is negative
OpenResult(stdout_fd, stderr_fd) ==
    IF stdout_fd < 0 \/ stderr_fd < 0 THEN "Err" ELSE "Ok"

\* history: the open_streams calls below the running one have been overtaken
MarkHit(st) ==
    [i \in 1 .. Len(st) |->
        IF i < Len(st) /\ st[i].op = "open_streams"
        THEN [st[i] EXCEPT !.hit = TRUE] ELSE st[i]]

\* open_streams()
Call_open_streams ==
    /\ CanCall
    /\ stack' = Append(stack, Frame("open_streams", "os_open1", 0, 0, <<>>))
    /\ UNCHANGED <<STDOUT, STDERR, HSTDOUT, HSTDERR, primask, nopen, origin>>

\* io.rs 33: OPEN ":tt" with mode 4, the word kept as isize
OsOpen1 ==
    /\ Running("os_open1")
    /\ \E w \in OpenWords :
          stack' = SetTop([Top EXCEPT !.fd = w, !.mode = ModeOut,
                                      !.pc = "os_open2"])
    /\ UNCHANGED <<STDOUT, STDERR, HSTDOUT, HSTDERR, primask, nopen, origin>>

\* io.rs 34: OPEN ":tt" with mode 8
OsOpen2 ==
    /\ Running("os_open2")
    /\ \E w \in OpenWords :
          stack' = SetTop([Top EXCEPT !.fd2 = w, !.mode2 = ModeErr,
                                      !.pc = "os_store1"])
    /\ UNCHANGED <<STDOUT, STDERR, HSTDOUT, HSTDERR, primask, nopen, origin>>

\* io.rs 38: write_volatile(&mut STDOUT, stdout_fd)
OsStore1 ==
    /\ Running("os_store1")
    /\ STDOUT' = Top.fd
    /\ origin' = [origin EXCEPT ![ModeOut] = Top.mode]
    /\ stack' = MarkHit(SetTop([Top EXCEPT !.pc = "os_store2"]))
    /\ UNCHANGED <<STDERR, HSTDOUT, HSTDERR, primask, nopen>>

\* io.rs 39-46: write_volatile(&mut STDERR, stderr_fd), then the result
OsStore2 ==
    /\ Running("os_store2")
    /\ STDERR' = Top.fd2
    /\ origin' = [origin EXCEPT ![ModeErr] = Top.mode2]
    /\ stack' = MarkHit(SetTop([Top EXCEPT !.res = OpenResult(Top.fd, Top.fd2),
                                           !.pc = "ret"]))
    /\ UNCHANGED <<STDOUT, HSTDOUT, HSTDERR, primask, nopen>>

\* mutant: each getter reads the other slot
ReadSlot_Crossed(op) == IF op = "get_stdout" THEN STDERR ELSE STDOUT

\* io.rs 19, 24: read_volatile(&STDOUT) / read_volatile(&STDERR)
ReadSlot(op) == IF op = "get_stdout" THEN STDOUT ELSE STDERR

\* get_stdout() / get_stderr()
Call_get(op) ==
    /\ CanCall
    /\ stack' = Append(stack, Frame(op, "gs_read", 0, 0, <<>>))
    /\ UNCHANGED <<STDOUT, STDERR, HSTDOUT, HSTDERR, primask, nopen, origin>>

\* io.rs 19, 24: read_volatile of the slot; the value read is returned in fd
GsRead ==
    /\ Running("gs_read")
    /\ stack' = SetTop([Top EXCEPT
            !.fd = ReadSlot(Top.op),
            !.pc = "ret"])
    /\ UNCHANGED <<STDOUT, STDERR, HSTDOUT, HSTDERR, primask, nopen, origin>>

\* the fmt::Arguments a caller may pass: the lengths of the strings that
\* fmt::write hands to write_str, in order
FmtArgs == {<<>>, <<MaxLen>>, <<1, MaxLen>>}

\* write, write_str, write_fmt, ewrite, ewrite_str, ewrite_fmt
Call_writer(op) ==
    /\ CanCall
    /\ \/ /\ op \notin FmtOps
          /\ \E n \in 0 .. MaxLen :
                stack' = Append(stack, Frame(op, "rw_get", 0, n, <<>>))
       \/ /\ op \in FmtOps
          /\ \E a \in FmtArgs :
                stack' = Append(stack, Frame(op, "fmt_next", 0, 0, a))
    /\ UNCHANGED <<STDOUT, STDERR, HSTDOUT, HSTDERR, primask, nopen, origin>>

\* io.rs 77, 83: write_all(get_stdout(), buffer) / write_all(get_stderr(), ..)
RwGet ==
    /\ Running("rw_get")
    /\ stack' = SetTop([Top EXCEPT
            !.fd = IF Top.op \in OutOps THEN STDOUT ELSE STDERR,
            !.pc = "wa_entry"])
    /\ UNCHANGED <<STDOUT, STDERR, HSTDOUT, HSTDERR, primask, nopen, origin>>

\* the end of write_fmt: back to the caller, or to the end of the closure
FmtDone(f, r) ==
    [f EXCEPT !.res = r,
              !.pc = IF f.op \in FacadeOps THEN "hs_unfree" ELSE "ret"]

\* io.rs 88-96, 106, 121 and export.rs 31, 61: write_fmt hands the pieces to
\* write_str one after the other and stops at the first failure
FmtNext ==
    /\ Running("fmt_next")
    /\ stack' = SetTop(
          IF Top.res = "Err" THEN FmtDone(Top, "Err")
          ELSE IF Top.rest = <<>> THEN FmtDone(Top, "Ok")
          ELSE [Top EXCEPT !.buf = Bytes(Head(Top.rest)), !.off = 0,
                           !.len = Head(Top.rest), !.rest = Tail(Top.rest),
                           !.subs = <<>>, !.res = "none",
                           !.pc = IF Top.op \in FacadeOps THEN "wa_entry"
                                  ELSE "rw_get"])
    /\ UNCHANGED <<STDOUT, STDERR, HSTDOUT, HSTDERR, primask, nopen, origin>>

(* ------------------------------ export.rs ------------------------------ *)

\* OPEN syscalls the printing entry points may issue per stream before the
\* model stops them
MaxOpens == 2

ModeOf(op) == IF op \in HOutOps THEN ModeOut ELSE ModeErr
SlotOf(op) == IF op \in HOutOps THEN HSTDOUT ELSE HSTDERR

\* mutant: the slot is taken for unset on every call
IsNone_Always(slot) == TRUE

\* export.rs 13, 27, 43, 57: Option::is_none
IsNone(slot) == slot = <<>>

\* mutant: the result of the OPEN is stored whether it failed or not
Assigned_Always(slot, r) == <<r.fd>>

\* export.rs 14, 28, 44, 58: HSTDOUT = Some(hio::hstdout()?): the slot after
\* the statement, r being what hio::hstdout() returned
Assigned(slot, r) == IF r.ok THEN <<r.fd>> ELSE slot

\* mutant: the closure runs with the interrupt mask as it was
FreeMask_Keep(mask) == mask

\* export.rs 12: interrupt::free runs the closure with interrupts masked
FreeMask(mask) == TRUE

\* hio::hstdout() / hio::hstderr(): the result of the OPEN, Err for a negative
\* word and Ok(handle) otherwise
HioOpen(w) == IF w < 0 THEN [ok |-> FALSE, fd |-> w] ELSE [ok |-> TRUE, fd |-> w]

\* mutant: every entry point reports the output stream
Label_Out(op) == "hstdout"

\* HStdout / HStderr: the stream writes to the handle its OPEN returned, through
\* the buffered writer
HioHandle(slot) == slot[1]

\* export.rs 21, 35, 51, 65: the label passed to error()
Label(op) == IF op \in HOutOps THEN "hstdout" ELSE "hstderr"

\* mutant: the early return leaves the entry point's critical section behind
EarlyReturn_Leak(f) == [f EXCEPT !.res = "Err", !.pc = "hs_check"]

\* export.rs 14, 28, 44, 58: the `?` on a failed OPEN returns Err from the
\* closure, to interrupt::free
EarlyReturn(f) == [f EXCEPT !.res = "Err", !.pc = "hs_unfree"]

\* hstdout_str(s), hstdout_fmt(args), hstderr_str(s), hstderr_fmt(args)
Call_hprint(op) ==
    /\ CanCall
    /\ ~IsNone(SlotOf(op)) \/ nopen[ModeOf(op)] < MaxOpens
    /\ \/ /\ op \notin FmtOps
          /\ \E n \in 0 .. MaxLen :
                stack' = Append(stack, Frame(op, "hs_free", 0, n, <<>>))
       \/ /\ op \in FmtOps
          /\ \E a \in FmtArgs :
                stack' = Append(stack, Frame(op, "hs_free", 0, 0, a))
    /\ UNCHANGED <<STDOUT, STDERR, HSTDOUT, HSTDERR, primask, nopen, origin>>

\* export.rs 12: interrupt::free masks the interrupts and runs the closure
HsFree ==
    /\ Running("hs_free")
    /\ primask' = FreeMask(primask)
    /\ stack' = SetTop([Top EXCEPT !.saved = primask, !.pc = "hs_test"])
    /\ UNCHANGED <<STDOUT, STDERR, HSTDOUT, HSTDERR, nopen, origin>>

\* export.rs 13: if HSTDOUT.is_none()
HsTest ==
    /\ Running("hs_test")
    /\ stack' = SetTop([Top EXCEPT
            !.pc = IF IsNone(SlotOf(Top.op)) THEN "hs_open" ELSE "hs_write"])
    /\ UNCHANGED <<STDOUT, STDERR, HSTDOUT, HSTDERR, primask, nopen, origin>>

\* export.rs 14: HSTDOUT = Some(hio::hstdout()?): on Err the closure returns
\* at the `?` and the slot is not assigned
HsOpen ==
    /\ Running("hs_open")
    /\ nopen[ModeOf(Top.op)] < MaxOpens
    /\ \E w \in OpenWords :
          LET r == HioOpen(w)
              slot == Assigned(SlotOf(Top.op), r)
          IN /\ nopen' = [nopen EXCEPT ![ModeOf(Top.op)] = @ + 1]
             /\ HSTDOUT' = IF Top.op \in HOutOps THEN slot ELSE HSTDOUT
             /\ HSTDERR' = IF Top.op \in HErrOps THEN slot ELSE HSTDERR
             /\ stack' = SetTop(IF r.ok THEN [Top EXCEPT !.pc = "hs_write"]
                                ELSE EarlyReturn(Top))
    /\ UNCHANGED <<STDOUT, STDERR, primask, origin>>

\* export.rs 17, 31: HSTDOUT.as_mut().unwrap().write_str(s) / .write_fmt(args)
HsWrite ==
    /\ Running("hs_write")
    /\ stack' = SetTop([Top EXCEPT
            !.fd = HioHandle(SlotOf(Top.op)),
            !.pc = IF Top.op \in FmtOps THEN "fmt_next" ELSE "wa_entry"])
    /\ UNCHANGED <<STDOUT, STDERR, HSTDOUT, HSTDERR, primask, nopen, origin>>

\* export.rs 18: the closure has returned, interrupt::free restores the mask;
\* of the closure only its result is left
HsUnfree ==
    /\ Running("hs_unfree")
    /\ primask' = Top.saved
    /\ stack' = SetTop([Frame(Top.op, "hs_check", 0, 0, <<>>) EXCEPT
                            !.res = Top.res])
    /\ UNCHANGED <<STDOUT, STDERR, HSTDOUT, HSTDERR, nopen, origin>>

\* export.rs 20-22: if result.is_err() { error("hstdout") }
HsCheck ==
    /\ Running("hs_check")
    /\ stack' = SetTop(IF Top.res = "Err"
                       THEN [Top EXCEPT !.label = Label(Top.op), !.pc = "error"]
                       ELSE [Top EXCEPT !.pc = "ret"])
    /\ UNCHANGED <<STDOUT, STDERR, HSTDOUT, HSTDERR, primask, nopen, origin>>

\* export.rs 70-72: panic!("failed to print to {}", label).  The context
\* never runs again; the interrupt mask stays as it is, so handlers still
\* fire on top of a context that panicked with interrupts enabled.
Error ==
    /\ Running("error")
    /\ stack' = SetTop([Top EXCEPT !.pc = "panicked"])
    /\ UNCHANGED <<STDOUT, STDERR, HSTDOUT, HSTDERR, primask, nopen, origin>>

(* ------------------------------ macros.rs ------------------------------ *)

\* macros.rs 35-87: the printing macros
Macros == {"hprint", "hprintln", "heprint", "heprintln"}

\* macros.rs 36-41, 49-57, 65-70, 78-86: the entry points a macro expands to;
\* the value of the macro is the value of the call
Expands(m) == IF m \in {"hprint", "hprintln"} THEN HOutOps ELSE HErrOps

\* export.rs 11, 25, 41, 55 and io.rs 17-28, 51, 100-125: what a call that has
\* reached its return hands to its caller.  The entry points of export.rs
\* declare no return type: their value is the unit, whatever the closure's
\* result was; the getters return the descriptor read; the others their Result.
Returned(f) ==
    IF f.op \in FacadeOps THEN "unit"
    ELSE IF f.op \in {"get_stdout", "get_stderr"} THEN f.fd
    ELSE f.res

(* ------------------------------ system --------------------------------- *)

Init ==
    /\ STDOUT = -1
    /\ STDERR = -1
    /\ HSTDOUT = <<>>
    /\ HSTDERR = <<>>
    /\ primask = FALSE
    /\ stack = <<>>
    /\ nopen = [m \in Modes |-> 0]
    /\ origin = [m \in Modes |-> 0]

\* a program that calls write_all from thread mode and from handlers
NextWriter ==
    \/ Call_write_all
    \/ WaEntry
    \/ WaExit
    \/ WaWrite
    \/ Return

SpecWriter == Init /\ [][NextWriter]_vars

\* a program that uses the slots of io.rs: open_streams, the getters and the
\* six writers
NextRegistry ==
    \/ Call_open_streams
    \/ OsOpen1
    \/ OsOpen2
    \/ OsStore1
    \/ OsStore2
    \/ \E op \in {"get_stdout", "get_stderr"} : Call_get(op)
    \/ GsRead
    \/ \E op \in OutOps \cup ErrOps : Call_writer(op)
    \/ RwGet
    \/ FmtNext
    \/ WaEntry
    \/ WaExit
    \/ WaWrite
    \/ Return

SpecRegistry == Init /\ [][NextRegistry]_vars

\* a program that opens the streams with open_streams and reads the slots
\* with the getters, from thread mode and from handlers
NextGetters ==
    \/ Call_open_streams
    \/ OsOpen1
    \/ OsOpen2
    \/ OsStore1
    \/ OsStore2
    \/ \E op \in {"get_stdout", "get_stderr"} : Call_get(op)
    \/ GsRead
    \/ Return

SpecGetters == Init /\ [][NextGetters]_vars

\* a program that prints through the entry points of export.rs
NextFacade ==
    \/ \E op \in FacadeOps : Call_hprint(op)
    \/ HsFree
    \/ HsTest
    \/ HsOpen
    \/ HsWrite
    \/ FmtNext
    \/ WaEntry
    \/ WaExit
    \/ WaWrite
    \/ HsUnfree
    \/ HsCheck
    \/ Error
    \/ Return

SpecFacade == Init /\ [][NextFacade]_vars

\* a program that opens the streams with open_streams and prints through the
\* entry points of export.rs: every operation that assigns a slot
NextSlots ==
    \/ Call_open_streams
    \/ OsOpen1
    \/ OsOpen2
    \/ OsStore1
    \/ OsStore2
    \/ NextFacade

SpecSlots == Init /\ [][NextSlots]_vars

(* ------------------------------ claims --------------------------------- *)

Frames == {stack[i] : i \in 1 .. Depth}
LastN(s, n) == SubSeq(s, Len(s) - n + 1, Len(s))
\* a write_all call that has handed its result on
Wrote(f) ==
    /\ f.op \in WriterOps
    /\ f.res \in {"Ok", "Err"}
    /\ f.pc \notin {"wa_entry", "wa_loop"}
LastSub(f) == f.subs[Len(f.subs)]

\* C1: write_all returns success only when the remaining buffer is empty or
\* the last WRITE it issued, for the whole remaining buffer, returned 0; it
\* never returns success while the host's last answer left bytes unwritten.
C1_SuccessOnlyWhenDrained ==
    \A f \in Frames :
        (Wrote(f) /\ f.res = "Ok" /\ ~BadFd(f.fd)) =>
            \/ f.len = 0
            \/ /\ f.subs # <<>>
               /\ LastSub(f).ret = 0
               /\ LastSub(f).bytes = View(f)

\* C1 witness: a success reached through a partial write and a final 0
C1_Witness ==
    \E f \in Frames :
        /\ f.op = "write_all" /\ f.pc = "ret" /\ f.res = "Ok"
        /\ Len(f.subs) = 2
        /\ f.subs[1].ret = 1
        /\ f.subs[2].ret = 0

\* C2: write_all with a negative handle returns the failure and issues no
\* WRITE syscall, whatever the buffer (the empty one included).
C2_NegativeHandleNoSyscall ==
    \A f \in Frames :
        (f.op = "write_all" /\ f.fd < 0) =>
            /\ f.subs = <<>>
            /\ f.pc \in {"wa_entry", "ret"}
            /\ f.pc = "ret" => f.res = "Err"

\* C2 witness: the call with handle -1 and the empty buffer has returned
C2_Witness ==
    \E f \in Frames :
        /\ f.op = "write_all" /\ f.fd = -1 /\ f.buf = <<>>
        /\ f.pc = "ret" /\ f.res = "Err"

\* C3: a WRITE answer greater than the number of bytes just attempted makes
\* write_all return the failure at once: it is the call's last syscall.
C3_MalformedAnswerFails ==
    \A f \in Frames :
        \A i \in 1 .. Len(f.subs) :
            UGt(f.subs[i].ret, Len(f.subs[i].bytes)) =>
                /\ i = Len(f.subs)
                /\ Wrote(f)
                /\ f.res = "Err"

\* C3 witness: a malformed answer after a well-formed partial one
C3_Witness ==
    \E f \in Frames :
        /\ f.op = "write_all" /\ f.pc = "ret" /\ f.res = "Err"
        /\ Len(f.subs) = 2
        /\ f.subs[2].ret = Len(f.subs[2].bytes) + 1

\* C4: after an answer n with 0 < n <= the length attempted, the next WRITE of
\* the call has the same handle and exactly the last n bytes of the buffer
\* just attempted.
C4_NextWriteIsTail ==
    \A f \in Frames :
        /\ \A i \in 2 .. Len(f.subs) :
              /\ f.subs[i].fd = f.subs[i - 1].fd
              /\ f.subs[i].bytes = LastN(f.subs[i - 1].bytes, f.subs[i - 1].ret)
        /\ (f.pc = "wa_loop" /\ f.subs # <<>>) =>
              /\ View(f) = LastN(LastSub(f).bytes, LastSub(f).ret)
              /\ f.len > 0

\* C4 witness: MaxLen bytes, answer 1, a second WRITE of the last byte,
\* answer 0, success after exactly two syscalls
C4_Witness ==
    \E f \in Frames :
        /\ f.op = "write_all" /\ f.pc = "ret" /\ f.res = "Ok"
        /\ f.subs = <<[fd |-> 0, bytes |-> Bytes(MaxLen), ret |-> 1],
                      [fd |-> 0, bytes |-> <<MaxLen>>, ret |-> 0]>>

Slot(m) == IF m = ModeOut THEN HSTDOUT ELSE HSTDERR
StreamOps(m) == IF m = ModeOut THEN HOutOps ELSE HErrOps
\* the positions of an export.rs entry point inside the closure of
\* interrupt::free
InClosure == {"hs_test", "hs_open", "hs_write", "fmt_next", "wa_entry",
              "wa_loop", "hs_unfree"}

\* C5 as stated: exactly one OPEN is issued per stream, whatever the
\* interleaving of the calls.
C5_Original == \A m \in Modes : nopen[m] <= 1

\* C5 amended: an OPEN for a stream is issued only while its slot is unset;
\* once an OPEN has succeeded the slot keeps its handle and no further OPEN is
\* issued for the stream, so at most one OPEN succeeds; and every WRITE of
\* every caller carries the handle in the slot.
C5_OneSuccessfulOpen ==
    [][\A m \in Modes :
          /\ nopen'[m] # nopen[m] => Slot(m) = <<>> /\ nopen'[m] = nopen[m] + 1
          /\ Slot(m) # <<>> => Slot(m)' = Slot(m) /\ nopen'[m] = nopen[m]
          /\ \A i \in 1 .. Len(stack') :
                stack'[i].op \in StreamOps(m) =>
                    \A j \in 1 .. Len(stack'[i].subs) :
                        /\ Slot(m)' # <<>>
                        /\ stack'[i].subs[j].fd = Slot(m)'[1]]_vars

\* C5 witness: a handler preempts a Thread-mode call that has printed and
\* writes to the handle that call opened, after the one OPEN
C5_Witness ==
    /\ Depth = 2
    /\ stack[1].op = "hstdout_str" /\ stack[1].pc = "hs_check"
    /\ stack[1].res = "Ok"
    /\ stack[2].op = "hstdout_fmt" /\ stack[2].subs # <<>>
    /\ stack[2].subs[1].fd = HSTDOUT[1]
    /\ nopen[ModeOut] = 1

\* C6 as stated: a slot that holds a value other than its initial one is
\* never assigned another value.
C6_Original ==
    [][/\ STDOUT # -1 => STDOUT' = STDOUT
       /\ STDERR # -1 => STDERR' = STDERR
       /\ HSTDOUT # <<>> => HSTDOUT' = HSTDOUT
       /\ HSTDERR # <<>> => HSTDERR' = HSTDERR]_vars

\* C6 amended: a slot of export.rs, once assigned, is never assigned again;
\* a slot of io.rs is assigned by the stores of open_streams and by nothing
\* else, each store writing the descriptor that call got, on every call.
C6_SlotAssignment ==
    [][/\ HSTDOUT # <<>> => HSTDOUT' = HSTDOUT
       /\ HSTDERR # <<>> => HSTDERR' = HSTDERR
       /\ STDOUT' # STDOUT => Running("os_store1") /\ STDOUT' = Top.fd
       /\ STDERR' # STDERR => Running("os_store2") /\ STDERR' = Top.fd2]_vars

\* C6 witness: open_streams has stored, and a handler's call finds the slot
\* of export.rs assigned by the one OPEN of an earlier call
C6_Witness ==
    /\ STDOUT = 3
    /\ Depth = 2
    /\ stack[1].op \in HOutOps /\ stack[1].pc = "hs_check"
    /\ stack[2].op \in HOutOps /\ stack[2].pc = "hs_write"
    /\ HSTDOUT # <<>>
    /\ nopen[ModeOut] = 1

\* C7: open_streams stores both OPEN results unchanged, negative or not, and
\* returns failure exactly when one of them is negative; when it returns,
\* STDERR holds the second result, and STDOUT the first unless another
\* open_streams call overtook this one between its two stores.
C7_OpenStreamsStoresBoth ==
    \A f \in Frames :
        (f.op = "open_streams" /\ f.pc = "ret") =>
            /\ f.res = "Err" <=> (f.fd < 0 \/ f.fd2 < 0)
            /\ f.res \in {"Ok", "Err"}
            /\ STDERR = f.fd2
            /\ ~f.hit => STDOUT = f.fd

\* C7 witness: OPEN results 3 and -1, failure returned, both stored
C7_Witness ==
    \E f \in Frames :
        /\ f.op = "open_streams" /\ f.pc = "ret"
        /\ f.fd = 3 /\ f.fd2 = -1 /\ f.res = "Err"
        /\ STDOUT = 3 /\ STDERR = -1

\* C8 as stated: once an OPEN has been issued for a stream, no later call
\* issues another one.
C8_Original ==
    [][\A m \in Modes : nopen[m] > 0 => nopen'[m] = nopen[m]]_vars

\* C8 amended: a failed OPEN is not stored: the slot stays unset, the closure
\* returns the failure, and a later call that finds the slot unset goes on to
\* OPEN again; only the handle of a successful OPEN is stored, and after that
\* no call issues another OPEN.
C8_FailedOpenNotStored ==
    [][\A m \in Modes :
          /\ (nopen'[m] # nopen[m] /\ Slot(m)' = <<>>) =>
                Top'.res = "Err" /\ Top'.pc = "hs_unfree"
          /\ (nopen'[m] # nopen[m] /\ Slot(m)' # <<>>) =>
                Top'.res = "none" /\ Top'.pc = "hs_write"
          /\ Slot(m)' # <<>> => Slot(m)'[1] >= 0
          /\ Slot(m) # <<>> => nopen'[m] = nopen[m]
          /\ (Running("hs_test") /\ Top.op \in StreamOps(m) /\ Slot(m) = <<>>)
                => Top'.pc = "hs_open"]_vars

\* C8 witness: a call is about to OPEN a stream whose OPEN has failed before
C8_Witness ==
    /\ Running("hs_open")
    /\ Top.op \in HErrOps
    /\ nopen[ModeErr] = 1
    /\ HSTDERR = <<>>
    /\ stack[1].pc = "panicked"

\* C9: a failure in an entry point of export.rs, of the OPEN or of the
\* write, ends in error() with the label of the stream, "hstdout" for
\* hstdout_str and hstdout_fmt, "hstderr" for hstderr_str and hstderr_fmt; the
\* entry point returns only when the OPEN and the whole write succeeded.
C9_FailureIsFatal ==
    \A f \in Frames :
        f.op \in FacadeOps =>
            /\ f.pc = "ret" => f.res = "Ok"
            /\ f.pc \in {"error", "panicked"} =>
                  /\ f.res = "Err"
                  /\ f.op \in {"hstdout_str", "hstdout_fmt"} => f.label = "hstdout"
                  /\ f.op \in {"hstderr_str", "hstderr_fmt"} => f.label = "hstderr"
            /\ f.pc \in {"hs_unfree", "hs_check"} => f.res \in {"Ok", "Err"}
            /\ (f.pc = "hs_unfree" /\ f.res = "Ok") =>
                  /\ SlotOf(f.op) # <<>>
                  /\ f.rest = <<>>
                  /\ f.len = 0 \/ (f.subs # <<>> /\ LastSub(f).ret = 0)
            /\ (f.pc = "hs_unfree" /\ f.res = "Err") =>
                  \/ SlotOf(f.op) = <<>>
                  \/ f.subs # <<>> /\ UGt(LastSub(f).ret, Len(LastSub(f).bytes))

\* C9 witness: hstderr_fmt has panicked on a write that failed after a
\* successful OPEN
C9_Witness ==
    \E f \in Frames :
        /\ f.op = "hstderr_fmt" /\ f.pc = "panicked" /\ f.label = "hstderr"
        /\ HSTDERR # <<>>

\* C10 as stated: the WRITE syscalls of an entry point are issued with
\* interrupts enabled.
C10_Original ==
    \A f \in Frames :
        (f.op \in FacadeOps /\ f.pc \in {"wa_entry", "wa_loop"}) => ~primask

\* C10 amended: the interrupt-suppressed region of an entry point covers the
\* test of the slot, the OPEN, the store, the handle and the whole write:
\* every WRITE is issued with interrupts masked and no handler runs between
\* two WRITEs of one call; interrupts are enabled before the region and after
\* it.
C10_WriteInsideRegion ==
    \A i \in 1 .. Depth :
        stack[i].op \in FacadeOps =>
            /\ stack[i].pc \in InClosure => primask /\ i = Depth
            /\ stack[i].subs # <<>> => stack[i].pc \in InClosure
            /\ (i = Depth /\ stack[i].pc \notin InClosure) => ~primask

\* C10 witness: an entry point is between two WRITE syscalls, interrupts
\* masked
C10_Witness ==
    /\ Running("wa_loop")
    /\ Top.op \in FacadeOps
    /\ Len(Top.subs) = 1
    /\ primask

\* C11 as stated: a printing macro hands a Result to its caller: when the
\* call returns, its value is Ok or Err, and a print that failed is not
\* diverted to error() but comes back to the caller as Err.
C11_Original ==
    \A m \in Macros : \A f \in Frames :
        f.op \in Expands(m) =>
            /\ f.pc = "ret" => Returned(f) \in {"Ok", "Err"}
            /\ (f.pc \notin InClosure /\ f.res = "Err") =>
                  f.pc \in {"hs_check", "ret"}

\* the bytes the host took at one WRITE: under the tail convention the answer
\* counts the bytes left at the end of the buffer submitted
AcceptedOf(sub) == SubSeq(sub.bytes, 1, Len(sub.bytes) - sub.ret)
\* the bytes the host took at the WRITEs of one call, in syscall order
Accepted(subs) ==
    LET acc[i \in 0 .. Len(subs)] ==
            IF i = 0 THEN <<>> ELSE acc[i - 1] \o AcceptedOf(subs[i])
    IN acc[Len(subs)]

\* C12: at every WRITE of one write_all call the buffer submitted is a suffix
\* of the original buffer, the first one the whole buffer, none longer than
\* the one before; when write_all returns success the bytes the host took,
\* in syscall order, are exactly the original buffer.
C12_NoReorderNoDuplicate ==
    \A f \in Frames :
        /\ \A i \in 1 .. Len(f.subs) :
              /\ Len(f.subs[i].bytes) <= Len(f.buf)
              /\ f.subs[i].bytes = LastN(f.buf, Len(f.subs[i].bytes))
              /\ i = 1 => f.subs[i].bytes = f.buf
              /\ i > 1 => Len(f.subs[i].bytes) <= Len(f.subs[i - 1].bytes)
        /\ (Wrote(f) /\ f.res = "Ok" /\ f.pc # "fmt_next") =>
              Accepted(f.subs) = f.buf

\* C12 witness: a buffer of MaxLen bytes written in two WRITEs, the host
\* taking all but the last byte first
C12_Witness ==
    \E f \in Frames :
        /\ f.op = "write_all" /\ f.pc = "ret" /\ f.res = "Ok"
        /\ f.buf = Bytes(MaxLen)
        /\ Len(f.subs) = 2
        /\ AcceptedOf(f.subs[1]) = Bytes(MaxLen - 1)
        /\ AcceptedOf(f.subs[2]) = <<MaxLen>>

\* an answer that lets the call go on: 0, malformed, or a residual count
\* smaller than the length just attempted
Progress(sub) ==
    \/ sub.ret = 0
    \/ UGt(sub.ret, Len(sub.bytes))
    \/ sub.ret < Len(sub.bytes)

\* C13: while every answer of the host is 0, malformed or a residual count
\* smaller than the length just attempted, a write_all call on a buffer of
\* length L issues at most L WRITEs: the remaining length shrinks by at least
\* one at each WRITE, and after the L-th WRITE the call has left the loop.
C13_AtMostLenSyscalls ==
    \A f \in Frames :
        (\A i \in 1 .. Len(f.subs) : Progress(f.subs[i])) =>
            /\ Len(f.subs) <= Len(f.buf)
            /\ f.pc = "wa_loop" => f.len <= Len(f.buf) - Len(f.subs)
            /\ (Len(f.subs) = Len(f.buf) /\ f.subs # <<>>) =>
                  /\ Wrote(f)
                  /\ f.pc # "wa_loop"

\* C13 witness: a call on MaxLen bytes has returned after MaxLen WRITEs, each
\* answer short of the last leaving one byte less
C13_Witness ==
    \E f \in Frames :
        /\ f.op = "write_all" /\ f.pc = "ret"
        /\ f.buf = Bytes(MaxLen)
        /\ Len(f.subs) = MaxLen
        /\ \A i \in 1 .. MaxLen - 1 :
              f.subs[i].ret = Len(f.subs[i].bytes) - 1

\* C14: an answer equal to the length just attempted is a partial write: the
\* call goes on and submits the same bytes to the same handle again; a call
\* that has issued a WRITE fails only on an answer greater than the length
\* attempted.
C14_FullResidualResubmits ==
    \A f \in Frames :
        /\ \A i \in 1 .. Len(f.subs) :
              f.subs[i].ret = Len(f.subs[i].bytes) =>
                  /\ i < Len(f.subs) =>
                        /\ f.subs[i + 1].bytes = f.subs[i].bytes
                        /\ f.subs[i + 1].fd = f.subs[i].fd
                  /\ i = Len(f.subs) =>
                        /\ f.pc = "wa_loop"
                        /\ f.res = "none"
                        /\ View(f) = f.subs[i].bytes
                        /\ f.fd = f.subs[i].fd
        /\ (Wrote(f) /\ f.res = "Err" /\ f.subs # <<>>) =>
              UGt(LastSub(f).ret, Len(LastSub(f).bytes))

\* C14 witness: the host took nothing of MaxLen bytes, the same bytes went
\* out again and the call succeeded
C14_Witness ==
    \E f \in Frames :
        /\ f.op = "write_all" /\ f.pc = "ret" /\ f.res = "Ok"
        /\ Len(f.subs) = 2
        /\ f.subs[1] = [fd |-> 0, bytes |-> Bytes(MaxLen), ret |-> MaxLen]
        /\ f.subs[2] = [fd |-> 0, bytes |-> Bytes(MaxLen), ret |-> 0]

\* C15: write_all with a non-negative handle and the empty buffer returns
\* success and issues no WRITE.
C15_EmptyBufferSucceeds ==
    \A f \in Frames :
        (f.op = "write_all" /\ f.fd >= 0 /\ f.buf = <<>>) =>
            /\ f.subs = <<>>
            /\ f.pc \in {"wa_entry", "wa_loop", "ret"}
            /\ f.pc = "ret" => f.res = "Ok"

\* C15 witness: the call with handle 0 and the empty buffer has returned
C15_Witness ==
    \E f \in Frames :
        /\ f.op = "write_all" /\ f.fd = 0 /\ f.buf = <<>>
        /\ f.pc = "ret" /\ f.res = "Ok" /\ f.subs = <<>>

\* the positions of an entry point of export.rs after interrupt::free
AfterRegion == {"hs_check", "error", "panicked", "ret"}

\* C16: every path out of the closure of an entry point, the early return on
\* a failed OPEN included, goes through the end of interrupt::free, which
\* unmasks the interrupts; error() is entered, and the entry point returns,
\* only from after the region, with interrupts unmasked; an entry point that
\* has left the region, returned or panicked, never runs with interrupts
\* masked.
C16_RegionReleased ==
    [][/\ (Depth > 0 /\ Top.op \in FacadeOps /\ Top.pc \in InClosure) =>
             /\ Depth' = Depth
             /\ Top'.pc \notin InClosure =>
                   /\ Top.pc = "hs_unfree"
                   /\ Top'.pc = "hs_check"
                   /\ primask /\ ~primask'
       /\ (Running("hs_open") /\ Top'.res = "Err") =>
             /\ Top'.pc = "hs_unfree"
             /\ primask'
       /\ (Depth' = Depth /\ Depth > 0 /\ Top.op \in FacadeOps
             /\ Top'.pc \in {"error", "panicked", "ret"}) =>
             /\ Top.pc \in AfterRegion
             /\ ~primask /\ ~primask'
       /\ (Depth' < Depth /\ Top.op \in FacadeOps) => ~primask'
       /\ \A i \in 1 .. Len(stack') :
             (stack'[i].op \in FacadeOps /\ stack'[i].pc \in AfterRegion
                /\ i = Len(stack')) => ~primask'
      ]_vars

\* C16 witness: the OPEN failed, the closure returned early, and error() has
\* been entered with interrupts unmasked
C16_Witness ==
    /\ Running("error")
    /\ Top.op \in FacadeOps
    /\ SlotOf(Top.op) = <<>>
    /\ ~primask

Getters == {"get_stdout", "get_stderr"}
\* the slot of io.rs an operation reads, by the mode of its OPEN
RegOps(m) ==
    IF m = ModeOut THEN OutOps \cup {"get_stdout"} ELSE ErrOps \cup {"get_stderr"}
RegSlot(m) == IF m = ModeOut THEN STDOUT ELSE STDERR

\* a slot holds -1 before any store and after it the answer of an OPEN of its
\* own mode; a getter that has read returns what the slot holds
C17_State ==
    \A m \in Modes :
        /\ origin[m] \in {0, m}
        /\ origin[m] = 0 => RegSlot(m) = -1
        /\ origin[m] = m => RegSlot(m) \in OpenWords
        /\ \A f \in Frames :
              (f.op \in Getters \cap RegOps(m) /\ f.pc = "ret") =>
                  /\ Returned(f) = RegSlot(m)
                  /\ Returned(f) = -1 \/ origin[m] = m

\* C17: in every state, a handler preempting an open_streams between its
\* stores included, get_stdout returns -1 or a word the host answered to an
\* OPEN with mode 4, get_stderr -1 or a word the host answered to an OPEN with
\* mode 8; no step of a getter changes a slot.
C17_GetterReturnsHostValue ==
    [][/\ C17_State
       /\ C17_State'
       /\ ((Depth > 0 /\ Top.op \in Getters /\ Depth' <= Depth)
             \/ (Depth' > Depth /\ Top'.op \in Getters)) =>
             UNCHANGED <<STDOUT, STDERR, HSTDOUT, HSTDERR, origin>>
      ]_vars

\* C17 witness: a handler's get_stdout returns the descriptor an open_streams
\* in flight has just stored, while the error slot still holds the
\* descriptor of an earlier open_streams
C17_Witness ==
    /\ Depth = 2
    /\ stack[1].op = "open_streams" /\ stack[1].pc = "os_store2"
    /\ stack[2].op = "get_stdout" /\ stack[2].pc = "ret"
    /\ Returned(stack[2]) = stack[1].fd
    /\ stack[1].fd = 3
    /\ STDERR = 3 /\ stack[1].fd2 = 1

\* C18 as stated: while no open_streams has stored into a slot, the slot
\* holds -1, its getter returns -1 and every write through its six writers
\* issues no WRITE and returns the failure.
C18_Original ==
    \A m \in Modes :
        origin[m] = 0 =>
            /\ RegSlot(m) = -1
            /\ \A f \in Frames :
                  f.op \in RegOps(m) =>
                      /\ f.subs = <<>>
                      /\ (f.op \in Getters /\ f.pc = "ret") => Returned(f) = -1
                      /\ (f.op \notin Getters /\ f.pc = "ret") =>
                            Returned(f) = "Err"

\* the state part of C18 as amended
C18_State ==
    \A m \in Modes :
        origin[m] = 0 =>
            /\ RegSlot(m) = -1
            /\ \A f \in Frames :
                  f.op \in RegOps(m) =>
                      /\ f.subs = <<>>
                      /\ (f.op \in Getters /\ f.pc = "ret") => Returned(f) = -1
                      /\ (f.op \notin Getters \cup FmtOps /\ f.pc = "ret") =>
                            Returned(f) = "Err"
                      /\ (f.op \in FmtOps /\ f.pc = "ret") =>
                            Returned(f) \in {"Ok", "Err"}

\* C18 amended: while no open_streams has stored into a slot, the slot holds
\* -1, its getter returns -1, and write, write_str, ewrite and ewrite_str
\* return the failure without a WRITE, whatever the buffer; write_fmt and
\* ewrite_fmt return the failure at the first string the formatting hands
\* them, without a WRITE, and success only when it hands them none; no
\* step of a writer stores into a slot.
C18_UnsetSlotFails ==
    [][/\ C18_State
       /\ C18_State'
       /\ \A m \in Modes :
             (origin[m] = 0 /\ Depth > 0 /\ Depth' = Depth
                /\ Top.op \in RegOps(m) \ Getters) =>
                 /\ Running("wa_entry") => Top'.res = "Err"
                 /\ (Running("fmt_next") /\ Top.rest # <<>> /\ Top.res # "Err")
                       => Top'.pc = "rw_get"
                 /\ (Running("fmt_next") /\ Top'.pc = "ret") =>
                       \/ Top'.res = "Err" /\ Top.res = "Err"
                       \/ /\ Top'.res = "Ok"
                          /\ Top.res = "none" /\ Top.rest = <<>>
                 /\ UNCHANGED <<STDOUT, STDERR, HSTDOUT, HSTDERR, origin>>
      ]_vars

\* C18 witness: write_fmt, called before any open_streams with a format of
\* two strings, has failed at the first one without a WRITE
C18_Witness ==
    \E f \in Frames :
        /\ f.op = "write_fmt" /\ f.pc = "ret" /\ f.res = "Err"
        /\ f.rest = <<MaxLen>>
        /\ f.subs = <<>>
        /\ origin[ModeOut] = 0

\* C19: no step of write_all, whatever the outcome of the call, assigns a
\* slot of io.rs or of export.rs, and none is an OPEN: the slots, the count
\* of OPENs and the origin of the descriptors stay as they are, and the call
\* goes on to its next WRITE or hands its result on.
C19_WriteTouchesNoSlot ==
    [][(Depth > 0 /\ Top.op \in WriterOps /\ Top.pc \in {"wa_entry", "wa_loop"}) =>
          /\ UNCHANGED <<STDOUT, STDERR, HSTDOUT, HSTDERR, nopen, origin>>
          /\ Depth' >= Depth
          /\ Depth' = Depth =>
                /\ Top'.pc \in {"wa_loop", "ret", "fmt_next", "hs_unfree"}
                /\ Top'.op = Top.op
                /\ Top'.fd = Top.fd
      ]_vars

\* C19 witness: a write through the output slot has failed on the host's
\* answer, and both slots still hold the descriptors open_streams stored
C19_Witness ==
    \E f \in Frames :
        /\ f.op = "write" /\ f.pc = "ret" /\ f.res = "Err"
        /\ f.subs # <<>>
        /\ f.fd = 3
        /\ STDOUT = 3 /\ STDERR = 1

====
